---- MODULE Spec2Model ----
(***************************************************************************)
(* AI-vs-Human attribution of a pull request.                              *)
(*                                                                         *)
(* The repository holds three revisions of one script:                     *)
(*   "added"    src/.github/scripts/ai-attribution.js   (added lines)      *)
(*   "volume"   src/unnamed/part_000, lines   1..210    (added + deleted)  *)
(*   "tolerant" src/unnamed/part_000, lines 212..464    (tolerant parser)  *)
(* A run of the script is a straight-line pipeline; the variable rev says  *)
(* which revision runs and pc where the run stands.                        *)
(*                                                                         *)
(* Text is modelled as a sequence of one-character strings, so that the    *)
(* script's regular expressions are operators over the characters.         *)
(***************************************************************************)
EXTENDS Integers, Sequences, FiniteSets, TLC

VARIABLES
  rev,          \* which revision of the script runs
  pc,           \* position of the run in the script
  baseSha,      \* const baseSha ("" while unset or null)
  headSha,      \* const headSha ("" while unset)
  commits,      \* const commits: the revisions listed by git rev-list
  patterns,     \* let patterns / aiAuthorPatterns: the compiled expressions
  gitLog,       \* what git returned for each commit processed so far
  aiVol,        \* let aiAdded / aiVol
  humanVol,     \* let humanAdded / humanVol
  details,      \* const details: one row per commit processed
  computedPct,  \* const computedPct
  declaredPct,  \* let declaredPct: [found, n]
  apiRequests,  \* the requests sent to the pull-request API, in order
  finalPct,     \* const finalPct
  sink,         \* what has been appended to the GITHUB_ENV file
  stderr,       \* the diagnostics written by console.error, in order
  failedGit,    \* the git commands that have failed, in order
  exited,       \* the process has ended
  exitCode,     \* its exit code, once exited
  fn            \* argument and result of a function applied on its own

vars == <<rev, pc, baseSha, headSha, commits, patterns, gitLog, aiVol, humanVol,
          details, computedPct, declaredPct, apiRequests, finalPct, sink, stderr,
          failedGit, exited, exitCode, fn>>

Revisions == {"added", "volume", "tolerant"}

-----------------------------------------------------------------------------
(* Characters and strings *)

UpperLetters ==
  <<"A","B","C","D","E","F","G","H","I","J","K","L","M",
    "N","O","P","Q","R","S","T","U","V","W","X","Y","Z">>

LowerLetters ==
  <<"a","b","c","d","e","f","g","h","i","j","k","l","m",
    "n","o","p","q","r","s","t","u","v","w","x","y","z">>

DigitChars == <<"0","1","2","3","4","5","6","7","8","9">>

IsUpper(c) == \E k \in 1..26 : UpperLetters[k] = c

IsLower(c) == \E k \in 1..26 : LowerLetters[k] = c

IsDigit(c) == \E k \in 1..10 : DigitChars[k] = c

\* the i flag: characters are compared after case folding
ToLowerChar(c) ==
  IF IsUpper(c) THEN LowerLetters[CHOOSE k \in 1..26 : UpperLetters[k] = c] ELSE c

\* \s
IsSpace(c) == c \in {" ", "\t", "\n", "\r"}

\* the characters at which ^ and $ match under the m flag
IsLineTerminator(c) == c \in {"\n", "\r"}

\* \w
IsWordChar(c) == IsUpper(c) \/ IsLower(c) \/ IsDigit(c) \/ c = "_"

\* s[i..j-1] is white space only
AllSpace(s, i, j) == \A k \in i..(j - 1) : IsSpace(s[k])

\* the lower-case literal lit occurs in s at position i, case-insensitively
MatchesAtCI(s, i, lit) ==
  /\ i >= 1
  /\ i + Len(lit) - 1 <= Len(s)
  /\ \A k \in 1..Len(lit) : ToLowerChar(s[i + k - 1]) = lit[k]

\* String.prototype.trim
Trim(s) ==
  IF \A k \in 1..Len(s) : IsSpace(s[k]) THEN <<>>
  ELSE LET first == CHOOSE i \in 1..Len(s) :
                      /\ ~IsSpace(s[i])
                      /\ \A k \in 1..(i - 1) : IsSpace(s[k])
           last  == CHOOSE j \in 1..Len(s) :
                      /\ ~IsSpace(s[j])
                      /\ \A k \in (j + 1)..Len(s) : IsSpace(s[k])
       IN  SubSeq(s, first, last)

\* Array.prototype.join('\n')
RECURSIVE JoinLines(_)
JoinLines(lines) ==
  IF lines = <<>> THEN <<>>
  ELSE IF Len(lines) = 1 THEN lines[1]
  ELSE lines[1] \o <<"\n">> \o JoinLines(Tail(lines))

\* String.prototype.split('\n'): the empty string splits into one empty line
RECURSIVE SplitLines(_)
SplitLines(s) ==
  IF \A k \in 1..Len(s) : s[k] # "\n" THEN <<s>>
  ELSE LET nl == CHOOSE i \in 1..Len(s) :
                   /\ s[i] = "\n"
                   /\ \A k \in 1..(i - 1) : s[k] # "\n"
       IN  <<SubSeq(s, 1, nl - 1)>> \o SplitLines(SubSeq(s, nl + 1, Len(s)))

\* Array.prototype.filter(Boolean) on strings: the empty ones are dropped
RECURSIVE FilterNonEmpty(_)
FilterNonEmpty(lines) ==
  IF lines = <<>> THEN <<>>
  ELSE IF lines[1] = <<>> THEN FilterNonEmpty(Tail(lines))
  ELSE <<lines[1]>> \o FilterNonEmpty(Tail(lines))

\* sh(cmd): the command's standard output, trimmed
sh(output) == Trim(output)

\* the value of a decimal digit
DigitValue(c) == (CHOOSE k \in 1..10 : DigitChars[k] = c) - 1

\* parseInt(digits, 10) on a non-empty run of decimal digits
RECURSIVE ParseInt(_)
ParseInt(digits) ==
  IF Len(digits) = 1 THEN DigitValue(digits[1])
  ELSE 10 * ParseInt(SubSeq(digits, 1, Len(digits) - 1))
         + DigitValue(digits[Len(digits)])

-----------------------------------------------------------------------------
(* Regular expressions of the AI-author pattern list.  A compiled          *)
(* expression is a sequence of elements, each a lower-case character or    *)
(* "ANY" (the dot).  The fragment covers literals, escaped characters and  *)
(* the dot, which is what the default list and the pattern files of this   *)
(* model use; RegExpThrows says when the constructor raises a SyntaxError. *)

\* let patterns = [/codex/i, /copilot/i, /chatgpt/i, /openai/i, /\[bot\]/i]
DefaultPatternSources ==
  << <<"c","o","d","e","x">>,
     <<"c","o","p","i","l","o","t">>,
     <<"c","h","a","t","g","p","t">>,
     <<"o","p","e","n","a","i">>,
     <<"\\","[","b","o","t","\\","]">> >>

\* the characters of a pattern source that stand outside an escape
RECURSIVE UnescapedFrom(_, _)
UnescapedFrom(src, i) ==
  IF i > Len(src) THEN <<>>
  ELSE IF src[i] = "\\"
       THEN IF i = Len(src) THEN <<"\\">> ELSE UnescapedFrom(src, i + 2)
       ELSE <<src[i]>> \o UnescapedFrom(src, i + 1)

\* number of c among the first n characters of s
CountIn(s, n, c) == Cardinality({k \in 1..n : s[k] = c})

\* new RegExp(src, 'i') throws a SyntaxError
RegExpThrows(src) ==
  LET m == UnescapedFrom(src, 1) IN
    \/ \E k \in 1..Len(m) : m[k] = "\\"
    \/ Len(m) >= 1 /\ m[1] \in {"*", "+", "?"}
    \/ \E n \in 1..Len(m) : CountIn(m, n, ")") > CountIn(m, n, "(")
    \/ CountIn(m, Len(m), "(") # CountIn(m, Len(m), ")")
    \/ \E i \in 1..Len(m) : m[i] = "[" /\ \A j \in (i + 1)..Len(m) : m[j] # "]"

\* new RegExp(src, 'i'), for a source that does not throw
RECURSIVE RegExpFrom(_, _)
RegExpFrom(src, i) ==
  IF i > Len(src) THEN <<>>
  ELSE IF src[i] = "\\" THEN <<ToLowerChar(src[i + 1])>> \o RegExpFrom(src, i + 2)
  ELSE IF src[i] = "." THEN <<"ANY">> \o RegExpFrom(src, i + 1)
  ELSE <<ToLowerChar(src[i])>> \o RegExpFrom(src, i + 1)

RegExp(src) == RegExpFrom(src, 1)

\* re.test(s): the expression matches somewhere in s
RegExpTest(re, s) ==
  \E i \in 1..(Len(s) - Len(re) + 1) :
    \A k \in 1..Len(re) :
      IF re[k] = "ANY" THEN ~IsLineTerminator(s[i + k - 1])
      ELSE ToLowerChar(s[i + k - 1]) = re[k]

DefaultPatterns ==
  [k \in 1..Len(DefaultPatternSources) |-> RegExp(DefaultPatternSources[k])]

\* the loop over the lines of .github/ai-authors.txt, from line i on:
\* [threw |-> a line made the constructor throw uncaught, pats |-> the list]
RECURSIVE PushPatterns(_, _, _, _)
PushPatterns(r, pats, lines, i) ==
  IF i > Len(lines) THEN [threw |-> FALSE, pats |-> pats]
  ELSE IF RegExpThrows(lines[i])
       THEN IF r = "added"
            THEN [threw |-> TRUE, pats |-> pats]            \* no try around it
            ELSE PushPatterns(r, pats, lines, i + 1)        \* try { } catch {}
       ELSE PushPatterns(r, Append(pats, RegExp(lines[i])), lines, i + 1)

\* .split('\n').map(l => l.trim()).filter(Boolean)
ExtraLines(text) ==
  LET raw == SplitLines(text)
  IN  FilterNonEmpty([k \in 1..Len(raw) |-> Trim(raw[k])])

\* the pattern list after the optional file has been read
LoadPatterns(r, fileExists, text) ==
  IF fileExists THEN PushPatterns(r, DefaultPatterns, ExtraLines(text), 1)
  ELSE [threw |-> FALSE, pats |-> DefaultPatterns]

-----------------------------------------------------------------------------
(* Commit classifier *)

\* /^\s*AI:\s*true\s*$/im.test(message)
MarkerLineTest(message) ==
  LET n == Len(message) IN
  \E i \in 1..(n + 1) :
    /\ i = 1 \/ IsLineTerminator(message[i - 1])
    /\ \E p \in i..(n + 1) :
         /\ AllSpace(message, i, p)
         /\ MatchesAtCI(message, p, <<"a","i",":">>)
         /\ \E q \in (p + 3)..(n + 1) :
              /\ AllSpace(message, p + 3, q)
              /\ MatchesAtCI(message, q, <<"t","r","u","e">>)
              /\ \E e \in (q + 4)..(n + 1) :
                   /\ AllSpace(message, q + 4, e)
                   /\ e = n + 1 \/ IsLineTerminator(message[e])

\* /\bAI\s*:\s*true\b/i.test(message)
hasAIMarker(message) ==
  LET n == Len(message) IN
  \E p \in 1..n :
    /\ p = 1 \/ ~IsWordChar(message[p - 1])
    /\ MatchesAtCI(message, p, <<"a","i">>)
    /\ \E c \in (p + 2)..n :
         /\ AllSpace(message, p + 2, c)
         /\ message[c] = ":"
         /\ \E q \in (c + 1)..n :
              /\ AllSpace(message, c + 1, q)
              /\ MatchesAtCI(message, q, <<"t","r","u","e">>)
              /\ q + 4 = n + 1 \/ ~IsWordChar(message[q + 4])

\* the first rule of isAICommit, per revision
MarkerRule(r, message) ==
  IF r = "volume" THEN hasAIMarker(message) ELSE MarkerLineTest(message)

\* patterns.some(re => re.test(authorName) || ... || re.test(committerEmail))
SomePatternMatches(pats, meta) ==
  \E k \in 1..Len(pats) :
    \/ RegExpTest(pats[k], meta.authorName)
    \/ RegExpTest(pats[k], meta.authorEmail)
    \/ RegExpTest(pats[k], meta.committerName)
    \/ RegExpTest(pats[k], meta.committerEmail)

isAICommit(r, pats, meta, message) ==
  IF MarkerRule(r, message) THEN TRUE ELSE SomePatternMatches(pats, meta)

Label(ai) == IF ai THEN "AI" ELSE "Human"

-----------------------------------------------------------------------------
(* Volume extractor *)

\* the end of the run of characters satisfying P that starts at i: the first
\* position from i on whose character does not satisfy P
RunEnd(s, i, P(_)) ==
  CHOOSE j \in i..(Len(s) + 1) :
    /\ \A k \in i..(j - 1) : P(s[k])
    /\ j = Len(s) + 1 \/ ~P(s[j])

\* the end of a field (\d+|-) that starts at i; i itself when there is none
FieldEnd(s, i) ==
  IF i <= Len(s) /\ s[i] = "-" THEN i + 1
  ELSE RunEnd(s, i, IsDigit)

\* line.match(/^(\d+|-)\s+(\d+|-)\s+/): [ok, m1, m2]
NumstatMatch(line) ==
  LET e1 == FieldEnd(line, 1)
      s1 == RunEnd(line, e1, IsSpace)
      e2 == FieldEnd(line, s1)
      s2 == RunEnd(line, e2, IsSpace)
  IN  [ok |-> e1 > 1 /\ s1 > e1 /\ e2 > s1 /\ s2 > e2,
       m1 |-> SubSeq(line, 1, e1 - 1),
       m2 |-> SubSeq(line, s1, e2 - 1)]

\* the body of the loop of addedLines, over the lines from i on
RECURSIVE AddedFrom(_, _)
AddedFrom(lines, i) ==
  IF i > Len(lines) THEN 0
  ELSE LET m == NumstatMatch(lines[i]) IN
       (IF m.ok /\ m.m1 # <<"-">> /\ m.m2 # <<"-">> THEN ParseInt(m.m1) ELSE 0)
         + AddedFrom(lines, i + 1)

\* addedLines(sha), given the output of git show --numstat --format= sha
addedLines(r, output) ==
  LET out == sh(output) IN
  IF r = "tolerant" /\ out = <<>> THEN 0
  ELSE AddedFrom(SplitLines(out), 1)

\* the body of the loop of changedLines, over the lines from i on
RECURSIVE ChangedFrom(_, _)
ChangedFrom(lines, i) ==
  IF i > Len(lines) THEN 0
  ELSE LET m == NumstatMatch(lines[i])
           a == IF m.m1 = <<"-">> THEN 0 ELSE ParseInt(m.m1)
           d == IF m.m2 = <<"-">> THEN 0 ELSE ParseInt(m.m2)
       IN  (IF m.ok THEN a + d ELSE 0) + ChangedFrom(lines, i + 1)

\* changedLines that leaves the deleted lines out
changedLinesAddedOnly(output) == addedLines("tolerant", output)

\* changedLines(sha), given the output of git show --numstat --format= sha
changedLines(output) ==
  LET out == sh(output) IN
  IF out = <<>> THEN 0 ELSE ChangedFrom(SplitLines(out), 1)

\* the volume of a commit, as the revision's loop computes it
CommitVolume(r, output) ==
  IF r = "volume" THEN changedLines(output) ELSE addedLines(r, output)

-----------------------------------------------------------------------------
(* Attribution aggregator *)

RECURSIVE GCD(_, _)
GCD(a, b) == IF b = 0 THEN a ELSE GCD(b, a % b)

\* The fractions ai/total in lowest terms whose double-precision product
\* (ai / total) * 100 falls just below the half 100*ai/total stands on:
\* 0.575 * 100 = 57.49999999999999, 0.145 * 100 = 14.499999999999998,
\* 0.285 * 100 = 28.499999999999996, 0.565 * 100 = 56.49999999999999.
\* A half needs a denominator of 8, 40 or 200; every other one of them is
\* computed exactly or above, and every value off a half keeps its side.
ProductBelowHalf == {<<23, 40>>, <<29, 200>>, <<57, 200>>, <<113, 200>>}

\* Math.floor in the place of Math.round
MathFloorPct(ai, total) == (100 * ai) \div total

\* Math.round((ai / total) * 100) for total > 0: Math.round rounds a half up
MathRoundPct(ai, total) ==
  LET g == GCD(ai, total) IN
  IF <<ai \div g, total \div g>> \in ProductBelowHalf
  THEN (100 * ai) \div total
  ELSE (200 * ai + total) \div (2 * total)

\* const computedPct = totalVol === 0 ? 0 : Math.round((aiVol / totalVol) * 100)
ComputedPctOf(ai, human) ==
  LET total == ai + human IN
  IF total = 0 THEN 0 ELSE MathRoundPct(ai, total)

\* Math.min in the place of Math.max
MathMin(a, b) == IF a <= b THEN a ELSE b

\* Math.max(computedPct, declaredPct)
MathMax(a, b) == IF a >= b THEN a ELSE b

-----------------------------------------------------------------------------
(* Declaration parser *)

\* declaredPct === null
NotFound == [found |-> FALSE, n |-> 0]

Found(n) == [found |-> TRUE, n |-> n]

SkipSpace(s, i) == RunEnd(s, i, IsSpace)

\* the two characters at i are the bold marker **
StarsAt(s, i) == i >= 1 /\ i + 1 <= Len(s) /\ s[i] = "*" /\ s[i + 1] = "*"

DigitAt(s, i) == i <= Len(s) /\ IsDigit(s[i])

\* ([0-9]{1,3}) at a digit: the run of digits there, three at most
CaptureAt(s, q) ==
  LET e == RunEnd(s, q, IsDigit)
  IN  SubSeq(s, q, IF e - q > 3 THEN q + 2 ELSE e - 1)

\* [\-\u2010-\u2015\u2212]
IsDash(c) ==
  c \in {"-", "u2010", "u2011", "u2012", "u2013", "u2014", "u2015", "u2212"}

\* Declared[dash]AI[dash]Percent at L, case-insensitively
LabelAt(s, L) ==
  /\ L + 18 <= Len(s)
  /\ MatchesAtCI(s, L, <<"d","e","c","l","a","r","e","d">>)
  /\ IsDash(s[L + 8])
  /\ MatchesAtCI(s, L + 9, <<"a","i">>)
  /\ IsDash(s[L + 11])
  /\ MatchesAtCI(s, L + 12, <<"p","e","r","c","e","n","t">>)

\* where the digits stand when the expression of the revision matches with its
\* label at L; 0 when it does not
\* "added":    /Declared-AI-Percent:\s*([0-9]{1,3})/i
\* "volume":   /(?:\*\*)\s*Declared..AI..Percent\s*(?:\*\*)\s*:\s*([0-9]{1,3})\s*%?\s*/i
\* "tolerant": /(?:\*\*)?\s*Declared..AI..Percent(?:\*\*)?\s*:\s*([0-9]{1,3})\s*%?\s*/i
DeclaredDigitsAt(r, s, L) ==
  IF r = "added" THEN
    IF MatchesAtCI(s, L, <<"d","e","c","l","a","r","e","d","-","a","i","-",
                           "p","e","r","c","e","n","t",":">>)
       /\ DigitAt(s, SkipSpace(s, L + 20))
    THEN SkipSpace(s, L + 20) ELSE 0
  ELSE IF ~LabelAt(s, L) THEN 0
  ELSE IF r = "volume" THEN
    LET a == SkipSpace(s, L + 19)
        c == SkipSpace(s, a + 2)
        q == SkipSpace(s, c + 1)
    IN  IF /\ \E p \in 1..(L - 2) : StarsAt(s, p) /\ AllSpace(s, p + 2, L)
           /\ StarsAt(s, a)
           /\ c <= Len(s) /\ s[c] = ":"
           /\ DigitAt(s, q)
        THEN q ELSE 0
  ELSE
    LET a == IF StarsAt(s, L + 19) THEN L + 21 ELSE L + 19
        c == SkipSpace(s, a)
        q == SkipSpace(s, c + 1)
    IN  IF c <= Len(s) /\ s[c] = ":" /\ DigitAt(s, q) THEN q ELSE 0

\* /Estimated\s*%[^0-9]*([0-9]{1,3})/i with its first word at L: where the
\* digits stand, 0 when it does not match there
EstimatedDigitsAt(s, L) ==
  IF ~MatchesAtCI(s, L, <<"e","s","t","i","m","a","t","e","d">>) THEN 0
  ELSE LET c == SkipSpace(s, L + 9)
           q == RunEnd(s, c + 1, LAMBDA ch : ~IsDigit(ch))
       IN  IF c <= Len(s) /\ s[c] = "%" /\ DigitAt(s, q) THEN q ELSE 0

\* body.match(re): the match that starts leftmost, as the position of its digits
FirstDigits(s, At(_, _)) ==
  IF \E L \in 1..Len(s) : At(s, L) > 0
  THEN At(s, CHOOSE L \in 1..Len(s) :
               /\ At(s, L) > 0
               /\ \A K \in 1..(L - 1) : At(s, K) = 0)
  ELSE 0

\* parseDeclared(body); the "added" revision does the same steps inline
parseDeclared(r, body) ==
  IF body = <<>> THEN NotFound
  ELSE LET strict == FirstDigits(body, LAMBDA s, L : DeclaredDigitsAt(r, s, L))
           alt    == FirstDigits(body, EstimatedDigitsAt)
       IN  IF strict > 0 THEN Found(ParseInt(CaptureAt(body, strict)))
           ELSE IF alt > 0 THEN Found(ParseInt(CaptureAt(body, alt)))
           ELSE NotFound

\* declaredPct === null || declaredPct < 0 || declaredPct > 100
DeclaredInvalid(d) == ~d.found \/ d.n < 0 \/ d.n > 100

-----------------------------------------------------------------------------
(* What the run reads: the commits of the range, the pattern file, the     *)
(* pull-request body.  These are the inputs the runs of the model draw.    *)

\* "Jane Doe"
JaneName ==
  <<"J","a","n","e"," ","D","o","e">>

\* "jane@example.com"
JaneEmail ==
  <<"j","a","n","e","@","e","x","a","m","p","l","e",".","c","o","m">>

\* "Copilot@github.com"
CopilotEmail ==
  <<"C","o","p","i","l","o","t","@","g","i","t","h","u","b",".","c","o","m">>

\* "Devin"
DevinName ==
  <<"D","e","v","i","n">>

\* "ci[bot]"
BotName ==
  <<"c","i","[","b","o","t","]">>

Meta(an, ae, cn, ce) ==
  [authorName |-> an, authorEmail |-> ae, committerName |-> cn, committerEmail |-> ce]

HumanMeta == Meta(JaneName, JaneEmail, JaneName, JaneEmail)

\* what git prints for one commit: its identities (git show -s), its message
\* (git log -1 --pretty=%B) and its diff statistics (git show --numstat)
Commit(meta, message, numstat) ==
  [meta |-> meta, message |-> message, numstat |-> numstat]

\* "fix bug\n"
MsgFix ==
  <<"f","i","x"," ","b","u","g","\n">>

\* "feat\n\nAI: true\n"
MsgTrailer ==
  <<"f","e","a","t","\n","\n","A","I",":"," ","t","r","u","e","\n">>

\* "10\t0\ta.js\n"
StatTen ==
  <<"1","0","\t","0","\t","a",".","j","s","\n">>

\* "5\t0\tb.js\n"
StatFive ==
  <<"5","\t","0","\t","b",".","j","s","\n">>

\* "3\t2\tc.js\n-\t-\timg.png\n"
StatMixed ==
  <<"3","\t","2","\t","c",".","j","s","\n","-","\t","-","\t","i","m","g",".","p","n","g","\n">>

\* "0\t4\td.js\n"
StatDeleted ==
  <<"0","\t","4","\t","d",".","j","s","\n">>

\* the commits a range of the model is made of
CommitFixtures ==
  { Commit(HumanMeta, MsgFix, StatTen),
    Commit(HumanMeta, MsgTrailer, StatFive),
    Commit(Meta(JaneName, CopilotEmail, JaneName, JaneEmail), MsgFix, StatMixed),
    Commit(Meta(JaneName, JaneEmail, DevinName, JaneEmail), MsgFix, StatDeleted) }

\* "devin\n"
FileDevin ==
  <<"d","e","v","i","n","\n">>

\* "ci(\n devin \n\n"
FileMalformedFirst ==
  <<"c","i","(","\n"," ","d","e","v","i","n"," ","\n","\n">>

\* "devin\n[bot\n"
FileMalformedLast ==
  <<"d","e","v","i","n","\n","[","b","o","t","\n">>

\* .github/ai-authors.txt: absent, or one of these texts
PatternFiles ==
  { [exists |-> FALSE, text |-> <<>>],
    [exists |-> TRUE, text |-> FileDevin],
    [exists |-> TRUE, text |-> FileMalformedFirst],
    [exists |-> TRUE, text |-> FileMalformedLast] }

\* "**Declared-AI-Percent**: 42\n"
BodyBold42 ==
  <<"*","*","D","e","c","l","a","r","e","d","-","A","I","-","P","e","r","c","e","n","t","*","*",":"," ","4","2","\n">>

\* "Declared-AI-Percent:140"
BodyPlain140 ==
  <<"D","e","c","l","a","r","e","d","-","A","I","-","P","e","r","c","e","n","t",":","1","4","0">>

\* "Summary\n\nDeclared-AI-Percent: 20\n"
BodyPlain20 ==
  <<"S","u","m","m","a","r","y","\n","\n","D","e","c","l","a","r","e","d","-","A","I","-","P","e","r","c","e","n","t",":"," ","2","0","\n">>

\* "**Declared-AI-Percent**: 70%"
BodyBold70 ==
  <<"*","*","D","e","c","l","a","r","e","d","-","A","I","-","P","e","r","c","e","n","t","*","*",":"," ","7","0","%">>

\* "Estimated % of code from AI (0-100): 60"
BodyEstimated ==
  <<"E","s","t","i","m","a","t","e","d"," ","%"," ","o","f"," ","c","o","d","e"," ","f","r","o","m"," ","A","I"," ","(","0","-","1","0","0",")",":"," ","6","0">>

\* pr.body, and the body the pull-request API returns; <<>> is a null or
\* empty body
Bodies ==
  { <<>>, BodyBold42, BodyPlain140, BodyPlain20, BodyBold70, BodyEstimated }

-----------------------------------------------------------------------------
(* The run of the script *)

\* the longest range of commits a run lists
MaxCommits == 3

\* no function is being applied on its own: the script runs
NoCall == [name |-> "none"]

Init ==
  /\ rev \in Revisions
  /\ pc = "readEvent"
  /\ baseSha = ""
  /\ headSha = ""
  /\ commits = <<>>
  /\ patterns = <<>>
  /\ gitLog = <<>>
  /\ aiVol = 0
  /\ humanVol = 0
  /\ details = <<>>
  /\ computedPct = 0
  /\ declaredPct = NotFound
  /\ apiRequests = <<>>
  /\ finalPct = 0
  /\ sink = <<>>
  /\ stderr = <<>>
  /\ failedGit = <<>>
  /\ exited = FALSE
  /\ exitCode = 0
  /\ fn = NoCall

\* console.error(msg); process.exit(1) -- and an exception nothing catches,
\* which node reports on the error channel before it exits with code 1
Fatal(msg) ==
  /\ stderr' = Append(stderr, msg)
  /\ exited' = TRUE
  /\ exitCode' = 1
  /\ pc' = "exited"

\* readEvent() and the test of event.pull_request
ReadEvent ==
  /\ pc = "readEvent"
  /\ \E event \in {"missing", "unparsable", "noPullRequest", "pullRequest"} :
       IF event = "missing" THEN Fatal("GITHUB_EVENT_PATH is missing")
       ELSE IF event = "unparsable" THEN Fatal("uncaught: JSON.parse")
       ELSE IF event = "noPullRequest" THEN Fatal("expected pull_request payload")
       ELSE /\ pc' = "base"
            /\ UNCHANGED <<stderr, exited, exitCode>>
  /\ UNCHANGED <<rev, baseSha, headSha, commits, patterns, gitLog, aiVol, humanVol,
                 details, computedPct, declaredPct, apiRequests, finalPct, sink,
                 failedGit, fn>>

\* const baseSha: "added" asks git (GITHUB_BASE_REF, else the merge base, else
\* the parent of HEAD); the others take pr.base.sha or null
ResolveBase ==
  /\ pc = "base"
  /\ \E baseRefSet \in BOOLEAN, revParseOk \in BOOLEAN,
        mergeBaseOk \in BOOLEAN, parentOk \in BOOLEAN, inPayload \in BOOLEAN :
       IF rev = "added"
       THEN IF (IF baseRefSet THEN revParseOk ELSE mergeBaseOk \/ parentOk)
            THEN /\ baseSha' = "base"
                 /\ pc' = "head"
                 /\ UNCHANGED <<stderr, failedGit, exited, exitCode>>
            ELSE /\ Fatal("uncaught: git rev-parse")
                 /\ failedGit' = Append(failedGit, "rev-parse base")
                 /\ UNCHANGED baseSha
       ELSE /\ baseSha' = IF inPayload THEN "base" ELSE ""
            /\ pc' = "head"
            /\ UNCHANGED <<stderr, failedGit, exited, exitCode>>
  /\ UNCHANGED <<rev, headSha, commits, patterns, gitLog, aiVol, humanVol,
                 details, computedPct, declaredPct, apiRequests, finalPct, sink, fn>>

\* const headSha: "added" asks git; the others take pr.head.sha, else ask git
ResolveHead ==
  /\ pc = "head"
  /\ \E inPayload \in BOOLEAN, revParseOk \in BOOLEAN :
       IF (IF rev = "added" THEN revParseOk ELSE inPayload \/ revParseOk)
       THEN /\ headSha' = "head"
            /\ pc' = IF rev = "added" THEN "list" ELSE "prefetch"
            /\ UNCHANGED <<stderr, failedGit, exited, exitCode>>
       ELSE /\ Fatal("uncaught: git rev-parse HEAD")
            /\ failedGit' = Append(failedGit, "rev-parse HEAD")
            /\ UNCHANGED headSha
  /\ UNCHANGED <<rev, baseSha, commits, patterns, gitLog, aiVol, humanVol,
                 details, computedPct, declaredPct, apiRequests, finalPct, sink, fn>>

\* try { if (baseSha) sh(`git cat-file -e ... || git fetch ...`) } catch { warn }
Prefetch ==
  /\ pc = "prefetch"
  /\ \E fetchOk \in BOOLEAN :
       IF baseSha # "" /\ ~fetchOk
       THEN /\ stderr' = Append(stderr, "Warning: could not ensure base SHA locally")
            /\ failedGit' = Append(failedGit, "fetch base")
       ELSE UNCHANGED <<stderr, failedGit>>
  /\ pc' = "checkShas"
  /\ UNCHANGED <<rev, baseSha, headSha, commits, patterns, gitLog, aiVol, humanVol,
                 details, computedPct, declaredPct, apiRequests, finalPct, sink,
                 exited, exitCode, fn>>

\* if (!baseSha) exit(1); if (!headSha) exit(1)
CheckShas ==
  /\ pc = "checkShas"
  /\ IF baseSha = "" THEN Fatal("Missing base SHA")
     ELSE IF headSha = "" THEN Fatal("Missing head SHA")
     ELSE /\ pc' = "list"
          /\ UNCHANGED <<stderr, exited, exitCode>>
  /\ UNCHANGED <<rev, baseSha, headSha, commits, patterns, gitLog, aiVol, humanVol,
                 details, computedPct, declaredPct, apiRequests, finalPct, sink,
                 failedGit, fn>>

\* a range query whose failure is swallowed: the run goes on with no commits
ListCommitsIgnoringFailure ==
  /\ pc = "list"
  /\ \E revListOk \in BOOLEAN, n \in 0..MaxCommits :
       /\ commits' = IF revListOk THEN [k \in 1..n |-> k] ELSE <<>>
       /\ failedGit' = IF revListOk THEN failedGit ELSE Append(failedGit, "rev-list")
  /\ pc' = "patterns"
  /\ UNCHANGED <<rev, baseSha, headSha, patterns, gitLog, aiVol, humanVol,
                 details, computedPct, declaredPct, apiRequests, finalPct, sink,
                 stderr, exited, exitCode, fn>>

\* commits = sh(`git rev-list base..head`).split('\n').filter(Boolean); the
\* commits are named 1..n in the order git lists them
ListCommits ==
  /\ pc = "list"
  /\ \E revListOk \in BOOLEAN, n \in 0..MaxCommits :
       IF revListOk
       THEN /\ commits' = [k \in 1..n |-> k]
            /\ pc' = "patterns"
            /\ UNCHANGED <<stderr, failedGit, exited, exitCode>>
       ELSE /\ Fatal(IF rev = "added" THEN "uncaught: git rev-list"
                     ELSE "Failed to list PR commits")
            /\ failedGit' = Append(failedGit, "rev-list")
            /\ UNCHANGED commits
  /\ UNCHANGED <<rev, baseSha, headSha, patterns, gitLog, aiVol, humanVol,
                 details, computedPct, declaredPct, apiRequests, finalPct, sink, fn>>

\* the pattern list and the optional .github/ai-authors.txt
ReadPatternFile ==
  /\ pc = "patterns"
  /\ \E file \in PatternFiles :
       LET loaded == LoadPatterns(rev, file.exists, file.text) IN
       /\ patterns' = loaded.pats
       /\ IF loaded.threw THEN Fatal("uncaught: SyntaxError: Invalid regular expression")
          ELSE /\ pc' = "loop"
               /\ UNCHANGED <<stderr, exited, exitCode>>
  /\ UNCHANGED <<rev, baseSha, headSha, commits, gitLog, aiVol, humanVol,
                 details, computedPct, declaredPct, apiRequests, finalPct, sink,
                 failedGit, fn>>

\* `${meta.authorName} <${meta.authorEmail}>`
AuthorOf(meta) == meta.authorName \o <<" ", "<">> \o meta.authorEmail \o <<">">>

\* a turn of the loop that adds the volume to the bucket of the other label
ProcessCommitOtherBucket ==
  /\ pc = "loop"
  /\ Len(details) < Len(commits)
  /\ \E c \in CommitFixtures, gitOk \in BOOLEAN :
       IF gitOk
       THEN LET vol == CommitVolume(rev, c.numstat)
                ai  == isAICommit(rev, patterns, c.meta, sh(c.message))
            IN  /\ gitLog' = Append(gitLog, c)
                /\ aiVol' = IF ai THEN aiVol ELSE aiVol + vol
                /\ humanVol' = IF ai THEN humanVol + vol ELSE humanVol
                /\ details' = Append(details,
                                [sha |-> commits[Len(details) + 1],
                                 author |-> AuthorOf(c.meta),
                                 volume |-> vol,
                                 label |-> Label(ai)])
                /\ UNCHANGED <<pc, stderr, failedGit, exited, exitCode>>
       ELSE /\ Fatal("uncaught: git show")
            /\ failedGit' = Append(failedGit, "show")
            /\ UNCHANGED <<gitLog, aiVol, humanVol, details>>
  /\ UNCHANGED <<rev, baseSha, headSha, commits, patterns, computedPct,
                 declaredPct, apiRequests, finalPct, sink, fn>>

\* one turn of for (const c of commits): the three git queries, the
\* classification, the bucket, the row (its volume is the field "added" of
\* the revisions that count added lines)
ProcessCommit ==
  /\ pc = "loop"
  /\ Len(details) < Len(commits)
  /\ \E c \in CommitFixtures, gitOk \in BOOLEAN :
       IF gitOk
       THEN LET vol == CommitVolume(rev, c.numstat)
                ai  == isAICommit(rev, patterns, c.meta, sh(c.message))
            IN  /\ gitLog' = Append(gitLog, c)
                /\ aiVol' = IF ai THEN aiVol + vol ELSE aiVol
                /\ humanVol' = IF ai THEN humanVol ELSE humanVol + vol
                /\ details' = Append(details,
                                [sha |-> commits[Len(details) + 1],
                                 author |-> AuthorOf(c.meta),
                                 volume |-> vol,
                                 label |-> Label(ai)])
                /\ UNCHANGED <<pc, stderr, failedGit, exited, exitCode>>
       ELSE /\ Fatal("uncaught: git show")
            /\ failedGit' = Append(failedGit, "show")
            /\ UNCHANGED <<gitLog, aiVol, humanVol, details>>
  /\ UNCHANGED <<rev, baseSha, headSha, commits, patterns, computedPct,
                 declaredPct, apiRequests, finalPct, sink, fn>>

\* const totalVol = aiVol + humanVol; const computedPct = ...
Aggregate ==
  /\ pc = "loop"
  /\ Len(details) = Len(commits)
  /\ computedPct' = ComputedPctOf(aiVol, humanVol)
  /\ pc' = "parse"
  /\ UNCHANGED <<rev, baseSha, headSha, commits, patterns, gitLog, aiVol, humanVol,
                 details, declaredPct, apiRequests, finalPct, sink, stderr,
                 exited, exitCode, failedGit, fn>>

\* let prBody = (pr.body || '').trim(); let declaredPct = parseDeclared(prBody)
ParseBody ==
  /\ pc = "parse"
  /\ \E body \in Bodies : declaredPct' = parseDeclared(rev, Trim(body))
  /\ pc' = IF rev = "added" THEN "validate" ELSE "refetch"
  /\ UNCHANGED <<rev, baseSha, headSha, commits, patterns, gitLog, aiVol, humanVol,
                 details, computedPct, apiRequests, finalPct, sink, stderr,
                 exited, exitCode, failedGit, fn>>

\* what the request to the pull-request API comes to
Responses ==
  {[kind |-> "curlFails", body |-> <<>>], [kind |-> "notJson", body |-> <<>>]}
    \cup {[kind |-> "json", body |-> b] : b \in Bodies}

\* a refetch that does not look at what the first parse found
RefetchBodyAlways ==
  /\ pc = "refetch"
  /\ \E token \in BOOLEAN, repository \in {"", "owner", "owner/repo"},
        response \in Responses :
       IF token /\ repository = "owner/repo"
       THEN /\ apiRequests' = Append(apiRequests,
                                 [token |-> token, repository |-> repository])
            /\ IF response.kind = "json"
               THEN /\ declaredPct' = parseDeclared(rev, Trim(response.body))
                    /\ UNCHANGED stderr
               ELSE /\ stderr' = Append(stderr, "Warning: refetch PR body failed")
                    /\ UNCHANGED declaredPct
       ELSE UNCHANGED <<apiRequests, declaredPct, stderr>>
  /\ pc' = "validate"
  /\ UNCHANGED <<rev, baseSha, headSha, commits, patterns, gitLog, aiVol, humanVol,
                 details, computedPct, finalPct, sink, failedGit, exited, exitCode,
                 fn>>

\* if (declaredPct === null && GITHUB_TOKEN && owner && repo) { try { ... } catch { warn } }
\* GITHUB_REPOSITORY is unset, has no slash (repo is undefined) or is owner/repo
RefetchBody ==
  /\ pc = "refetch"
  /\ \E token \in BOOLEAN, repository \in {"", "owner", "owner/repo"},
        response \in Responses :
       IF ~declaredPct.found /\ token /\ repository = "owner/repo"
       THEN /\ apiRequests' = Append(apiRequests,
                                 [token |-> token, repository |-> repository])
            /\ IF response.kind = "json"
               THEN /\ declaredPct' = parseDeclared(rev, Trim(response.body))
                    /\ UNCHANGED stderr
               ELSE /\ stderr' = Append(stderr, "Warning: refetch PR body failed")
                    /\ UNCHANGED declaredPct
       ELSE UNCHANGED <<apiRequests, declaredPct, stderr>>
  /\ pc' = "validate"
  /\ UNCHANGED <<rev, baseSha, headSha, commits, patterns, gitLog, aiVol, humanVol,
                 details, computedPct, finalPct, sink, failedGit, exited, exitCode,
                 fn>>

\* a validation that tests only that a value was found
ValidateWithoutRange ==
  /\ pc = "validate"
  /\ IF ~declaredPct.found
     THEN Fatal("Declared AI% is missing or invalid")
     ELSE /\ pc' = "final"
          /\ UNCHANGED <<stderr, exited, exitCode>>
  /\ UNCHANGED <<rev, baseSha, headSha, commits, patterns, gitLog, aiVol, humanVol,
                 details, computedPct, declaredPct, apiRequests, finalPct, sink,
                 failedGit, fn>>

\* a validation that reports the error and goes on
ValidateWithoutExit ==
  /\ pc = "validate"
  /\ stderr' = IF ~declaredPct.found \/ declaredPct.n < 0 \/ declaredPct.n > 100
               THEN Append(stderr, "Declared AI% is missing or invalid")
               ELSE stderr
  /\ pc' = "final"
  /\ UNCHANGED <<rev, baseSha, headSha, commits, patterns, gitLog, aiVol, humanVol,
                 details, computedPct, declaredPct, apiRequests, finalPct, sink,
                 failedGit, exited, exitCode, fn>>

\* if (declaredPct === null || declaredPct < 0 || declaredPct > 100) exit(1)
Validate ==
  /\ pc = "validate"
  /\ IF DeclaredInvalid(declaredPct)
     THEN Fatal("Declared AI% is missing or invalid")
     ELSE /\ pc' = "final"
          /\ UNCHANGED <<stderr, exited, exitCode>>
  /\ UNCHANGED <<rev, baseSha, headSha, commits, patterns, gitLog, aiVol, humanVol,
                 details, computedPct, declaredPct, apiRequests, finalPct, sink,
                 failedGit, fn>>

\* const finalPct = Math.max(computedPct, declaredPct)
Finalize ==
  /\ pc = "final"
  /\ finalPct' = MathMax(computedPct, declaredPct.n)
  /\ pc' = "envFile"
  /\ UNCHANGED <<rev, baseSha, headSha, commits, patterns, gitLog, aiVol, humanVol,
                 details, computedPct, declaredPct, apiRequests, sink, stderr,
                 exited, exitCode, failedGit, fn>>

\* const envFile = process.env.GITHUB_ENV; if (!envFile) exit(1)
CheckEnvFile ==
  /\ pc = "envFile"
  /\ \E envFileSet \in BOOLEAN :
       IF envFileSet
       THEN /\ pc' = "appendMd"
            /\ UNCHANGED <<stderr, exited, exitCode>>
       ELSE Fatal("GITHUB_ENV missing")
  /\ UNCHANGED <<rev, baseSha, headSha, commits, patterns, gitLog, aiVol, humanVol,
                 details, computedPct, declaredPct, apiRequests, finalPct, sink,
                 failedGit, fn>>

\* fs.appendFileSync(envFile, `\nATTRIBUTION_MD<<EOF\n${md}\nEOF\n`)
AppendMd ==
  /\ pc = "appendMd"
  /\ sink' = Append(sink,
               [name |-> "ATTRIBUTION_MD",
                computed |-> computedPct, declared |-> declaredPct.n,
                final |-> finalPct, ai |-> aiVol, human |-> humanVol,
                total |-> aiVol + humanVol, rows |-> details])
  /\ pc' = "appendSummary"
  /\ UNCHANGED <<rev, baseSha, headSha, commits, patterns, gitLog, aiVol, humanVol,
                 details, computedPct, declaredPct, apiRequests, finalPct, stderr,
                 exited, exitCode, failedGit, fn>>

\* fs.appendFileSync(envFile, `ATTRIBUTION_SUMMARY=${summary}\n`)
AppendSummary ==
  /\ pc = "appendSummary"
  /\ sink' = Append(sink,
               [name |-> "ATTRIBUTION_SUMMARY",
                computed |-> computedPct, declared |-> declaredPct.n,
                final |-> finalPct, base |-> baseSha, head |-> headSha])
  /\ pc' = "log"
  /\ UNCHANGED <<rev, baseSha, headSha, commits, patterns, gitLog, aiVol, humanVol,
                 details, computedPct, declaredPct, apiRequests, finalPct, stderr,
                 exited, exitCode, failedGit, fn>>

\* console.log(summary), and the script ends
Finish ==
  /\ pc = "log"
  /\ exited' = TRUE
  /\ exitCode' = 0
  /\ pc' = "exited"
  /\ UNCHANGED <<rev, baseSha, headSha, commits, patterns, gitLog, aiVol, humanVol,
                 details, computedPct, declaredPct, apiRequests, finalPct, sink,
                 stderr, failedGit, fn>>

Next ==
  \/ ReadEvent
  \/ ResolveBase
  \/ ResolveHead
  \/ Prefetch
  \/ CheckShas
  \/ ListCommits
  \/ ReadPatternFile
  \/ ProcessCommit
  \/ Aggregate
  \/ ParseBody
  \/ RefetchBody
  \/ Validate
  \/ Finalize
  \/ CheckEnvFile
  \/ AppendMd
  \/ AppendSummary
  \/ Finish

Spec == Init /\ [][Next]_vars

-----------------------------------------------------------------------------
(* The script's functions applied on their own, to inputs drawn from wider *)
(* sets than the commits of a run: fn holds the call, pc = "call".         *)

\* the most lines a commit message of a call has
MaxMsgLines == 2

\* the most files the diff statistics of a call list
MaxFiles == 2

\* the largest AI or human volume of a call of the percentage
MaxPctVol == 23

\* the most lines the pattern file of a call has
MaxPatternLines == 2

\* "fix bug"
LineFix ==
  <<"f","i","x"," ","b","u","g">>

\* "AI: true"
LineMarker ==
  <<"A","I",":"," ","t","r","u","e">>

\* "ai : TRUE"
LineSpacedColon ==
  <<"a","i"," ",":"," ","T","R","U","E">>

\* " Ai:true "
LinePadded ==
  <<" ","A","i",":","t","r","u","e"," ">>

\* "see AI: true story"
LineProse ==
  <<"s","e","e"," ","A","I",":"," ","t","r","u","e"," ","s","t","o","r","y">>

\* "AI:"
LineKey ==
  <<"A","I",":">>

\* "true"
LineValue ==
  <<"t","r","u","e">>

\* ""
LineBlank ==
  <<>>

MessageLines ==
  { LineFix, LineMarker, LineSpacedColon, LinePadded, LineProse, LineKey,
    LineValue, LineBlank }

\* the sequences over S of lengths lo..hi
SeqsOf(S, lo, hi) == UNION {[1..n -> S] : n \in lo..hi}

\* git log -1 --pretty=%B prints the message and a line break
MessageText(lines) == JoinLines(lines) \o <<"\n">>

\* the identities of a call: all human, or one of the four fields a bot's
BotIdentities == {CopilotEmail, BotName, DevinName}

CallMetas ==
  {HumanMeta}
    \cup {Meta(b, JaneEmail, JaneName, JaneEmail) : b \in BotIdentities}
    \cup {Meta(JaneName, b, JaneName, JaneEmail) : b \in BotIdentities}
    \cup {Meta(JaneName, JaneEmail, b, JaneEmail) : b \in BotIdentities}
    \cup {Meta(JaneName, JaneEmail, JaneName, b) : b \in BotIdentities}

\* the pattern lists of a call: the default one, and with the line devin added
CallPatterns == {DefaultPatterns, LoadPatterns("volume", TRUE, FileDevin).pats}

\* "src/a.js"
PathText ==
  <<"s","r","c","/","a",".","j","s">>

\* "img.png"
PathImage ==
  <<"i","m","g",".","p","n","g">>

\* one file of a commit's diff: a text file with its counts, or a binary one
FileStat(binary, added, deleted, path) ==
  [binary |-> binary, added |-> added, deleted |-> deleted, path |-> path]

FileStats ==
  { FileStat(FALSE, 3, 2, PathText),
    FileStat(FALSE, 10, 0, PathText),
    FileStat(FALSE, 0, 4, PathText),
    FileStat(FALSE, 12, 105, PathText),
    FileStat(TRUE, 0, 0, PathImage) }

\* the decimal digits of n, as git prints a count
RECURSIVE Decimal(_)
Decimal(n) ==
  IF n < 10 THEN <<DigitChars[n + 1]>>
  ELSE Decimal(n \div 10) \o <<DigitChars[(n % 10) + 1]>>

\* one line of git show --numstat: added TAB deleted TAB path, or - TAB - TAB path
NumstatLine(f) ==
  (IF f.binary THEN <<"-", "\t", "-">>
   ELSE Decimal(f.added) \o <<"\t">> \o Decimal(f.deleted))
    \o <<"\t">> \o f.path \o <<"\n">>

\* the output of git show --numstat --format= for the files of a commit
RECURSIVE NumstatText(_)
NumstatText(files) ==
  IF files = <<>> THEN <<>>
  ELSE NumstatLine(files[1]) \o NumstatText(Tail(files))

\* "devin"
LineDevin ==
  <<"d","e","v","i","n">>

\* " dev.n "
LineDotPadded ==
  <<" ","d","e","v",".","n"," ">>

\* "ci("
LineOpenParen ==
  <<"c","i","(">>

\* "[bot"
LineOpenClass ==
  <<"[","b","o","t">>

\* "  "
LineSpaces ==
  <<" "," ">>

\* the lines a pattern file of a call is made of
PatternLines == {LineDevin, LineDotPadded, LineOpenParen, LineOpenClass, LineSpaces}

\* "Declared-AI-Percent"
LabelPlain ==
  <<"D","e","c","l","a","r","e","d","-","A","I","-","P","e","r","c","e","n","t">>

\* "Declared\u2013ai\u2013PERCENT", with en dashes
LabelEnDash ==
  <<"D","e","c","l","a","r","e","d","u2013","a","i","u2013","P","E","R","C","E","N","T">>

\* "Estimated %: 10"
EstimatedLine ==
  <<"E","s","t","i","m","a","t","e","d"," ","%",":"," ","1","0">>

\* "Summary\n\n"
LeadSummary ==
  <<"S","u","m","m","a","r","y","\n","\n">>

\* what stands before the label, and between the label and the number
BodyOpenings == {<<>>, <<"*","*">>}

BodyLabels == {LabelPlain, LabelEnDash}

BodyClosings == {<<":">>, <<"*","*",":">>, <<":","*","*">>, <<"*","*"," ",":">>}

BodyGaps == {<<>>, <<" ">>}

BodyNumbers == {<<"4","2">>, <<"1","4","0">>, <<"1","0","0","0">>}

BodyTails == {<<>>, <<"%">>}

BodyLeads == {<<>>, LeadSummary, EstimatedLine \o <<"\n">>}

BodyTrails == {<<>>, <<"\n">> \o EstimatedLine}

\* pull-request bodies with a declaration field in its written forms, and
\* bodies without one
CallBodies ==
  {lead \o open \o label \o close \o gap \o number \o tail \o trail :
     lead \in BodyLeads, open \in BodyOpenings, label \in BodyLabels,
     close \in BodyClosings, gap \in BodyGaps, number \in BodyNumbers,
     tail \in BodyTails, trail \in BodyTrails}
    \cup Bodies \cup {LeadSummary, EstimatedLine}

Call(name, arg, ret) == [name |-> name, arg |-> arg, done |-> FALSE, ret |-> ret]

Calls ==
  {Call("isAICommit", [patterns |-> p, meta |-> m, lines |-> l], FALSE) :
     p \in CallPatterns, m \in CallMetas, l \in SeqsOf(MessageLines, 1, MaxMsgLines)}
    \cup {Call("volume", [files |-> f], 0) : f \in SeqsOf(FileStats, 0, MaxFiles)}
    \cup {Call("computedPct", [ai |-> a, human |-> h], 0) :
            a \in 0..MaxPctVol, h \in 0..MaxPctVol}
    \cup {Call("loadPatterns", [exists |-> TRUE, lines |-> l],
                [threw |-> FALSE, pats |-> <<>>]) :
            l \in SeqsOf(PatternLines, 0, MaxPatternLines)}
    \cup {Call("loadPatterns", [exists |-> FALSE, lines |-> <<>>],
                [threw |-> FALSE, pats |-> <<>>])}
    \cup {Call("declaration", [body |-> b], [parsed |-> NotFound, fatal |-> FALSE]) :
            b \in CallBodies}

InitFn ==
  /\ rev \in Revisions
  /\ pc = "call"
  /\ fn \in Calls
  /\ baseSha = ""
  /\ headSha = ""
  /\ commits = <<>>
  /\ patterns = <<>>
  /\ gitLog = <<>>
  /\ aiVol = 0
  /\ humanVol = 0
  /\ details = <<>>
  /\ computedPct = 0
  /\ declaredPct = NotFound
  /\ apiRequests = <<>>
  /\ finalPct = 0
  /\ sink = <<>>
  /\ stderr = <<>>
  /\ failedGit = <<>>
  /\ exited = FALSE
  /\ exitCode = 0

Return(value) ==
  /\ fn' = [fn EXCEPT !.done = TRUE, !.ret = value]
  /\ UNCHANGED <<rev, pc, baseSha, headSha, commits, patterns, gitLog, aiVol,
                 humanVol, details, computedPct, declaredPct, apiRequests, finalPct,
                 sink, stderr, failedGit, exited, exitCode>>

\* isAICommit(meta, commitMessage(sha))
ApplyIsAICommit ==
  /\ pc = "call" /\ fn.name = "isAICommit" /\ ~fn.done
  /\ Return(isAICommit(rev, fn.arg.patterns, fn.arg.meta,
                       sh(MessageText(fn.arg.lines))))

\* addedLines(sha) / changedLines(sha)
ApplyCommitVolume ==
  /\ pc = "call" /\ fn.name = "volume" /\ ~fn.done
  /\ Return(CommitVolume(rev, NumstatText(fn.arg.files)))

\* totalVol === 0 ? 0 : Math.round((aiVol / totalVol) * 100)
ApplyComputedPct ==
  /\ pc = "call" /\ fn.name = "computedPct" /\ ~fn.done
  /\ Return(ComputedPctOf(fn.arg.ai, fn.arg.human))

\* the pattern list after .github/ai-authors.txt, whose text is the lines
ApplyLoadPatterns ==
  /\ pc = "call" /\ fn.name = "loadPatterns" /\ ~fn.done
  /\ Return(LoadPatterns(rev, fn.arg.exists, JoinLines(fn.arg.lines)))

\* declaredPct = parseDeclared((pr.body || '').trim()) with no refetch to
\* follow, and whether the validation then ends the run
ApplyDeclaration ==
  /\ pc = "call" /\ fn.name = "declaration" /\ ~fn.done
  /\ LET d == parseDeclared(rev, Trim(fn.arg.body))
     IN  Return([parsed |-> d, fatal |-> DeclaredInvalid(d)])

NextFn ==
  \/ ApplyIsAICommit
  \/ ApplyCommitVolume
  \/ ApplyComputedPct
  \/ ApplyLoadPatterns
  \/ ApplyDeclaration

SpecFn == InitFn /\ [][NextFn]_vars

-----------------------------------------------------------------------------
(* Properties of the run, checked under Spec *)

Last(seq) == seq[Len(seq)]

\* the declaration is absent or outside 0..100
DeclarationInvalid ==
  ~declaredPct.found \/ declaredPct.n < 0 \/ declaredPct.n > 100

\* the run stands after the validation of the declaration
PastValidation ==
  pc \in {"final", "envFile", "appendMd", "appendSummary", "log", "exited"}

\* C1: a run whose declared percentage is absent after both parse attempts,
\* or outside 0..100, does not get past the validation: it has ended with a
\* non-zero exit code and nothing has been appended to the output sink.
C1_InvalidDeclarationIsFatal ==
  (PastValidation /\ DeclarationInvalid)
    => (exited /\ exitCode # 0 /\ sink = <<>>)

\* a run that found no declaration in the local body, asked the API once,
\* found none there either and ended on the validation error
C1_Witness ==
  /\ exited /\ exitCode = 1
  /\ Len(apiRequests) = 1
  /\ ~declaredPct.found
  /\ Last(stderr) = "Declared AI% is missing or invalid"
  /\ sink = <<>>

\* the diagnostics that are warnings, not fatal errors
Warnings ==
  {"Warning: could not ensure base SHA locally", "Warning: refetch PR body failed"}

\* C2: the sink is appended to at most twice, the Markdown block first and
\* the summary second; when something has been appended every validation
\* has passed (no fatal diagnostic, both revisions resolved, the range
\* listed and processed, a valid declaration); a run that ended with a
\* non-zero exit code has appended nothing.
C2_SinkWrittenOnlyAfterValidation ==
  /\ Len(sink) <= 2
  /\ \A k \in 1..Len(sink) :
       sink[k].name = IF k = 1 THEN "ATTRIBUTION_MD" ELSE "ATTRIBUTION_SUMMARY"
  /\ sink # <<>> =>
       /\ \A k \in 1..Len(stderr) : stderr[k] \in Warnings
       /\ baseSha # "" /\ headSha # ""
       /\ Len(details) = Len(commits)
       /\ declaredPct.found /\ declaredPct.n \in 0..100
       /\ pc \in {"appendSummary", "log", "exited"}
  /\ (exited /\ exitCode # 0) => sink = <<>>

\* a run that ended well with both values appended
C2_Witness ==
  /\ exited /\ exitCode = 0
  /\ Len(sink) = 2
  /\ sink[1].name = "ATTRIBUTION_MD" /\ sink[2].name = "ATTRIBUTION_SUMMARY"

\* the run has computed the final percentage
ReportReached ==
  pc \in {"envFile", "appendMd", "appendSummary", "log"} \/ sink # <<>>

\* C4: once the report is reached the final percentage is the larger of the
\* computed and the declared one: it is one of the two, below neither, in
\* 0..100, the declared one when the range holds no commit, and it is the
\* value every appended entry carries.
C4_FinalIsMax ==
  ReportReached =>
    /\ finalPct \in {computedPct, declaredPct.n}
    /\ finalPct >= computedPct /\ finalPct >= declaredPct.n
    /\ finalPct \in 0..100
    /\ commits = <<>> => finalPct = declaredPct.n
    /\ \A k \in 1..Len(sink) :
         /\ sink[k].final = finalPct
         /\ sink[k].computed = computedPct
         /\ sink[k].declared = declaredPct.n

\* no commit in the range, 20 declared, 20 reported
C4_Witness ==
  /\ sink # <<>>
  /\ commits = <<>>
  /\ computedPct = 0
  /\ declaredPct = Found(20)
  /\ finalPct = 20

\* what C7 says of one step of the run
C7_Step ==
  /\ apiRequests' # apiRequests =>
       /\ pc = "refetch"
       /\ apiRequests = <<>> /\ Len(apiRequests') = 1
       /\ ~declaredPct.found
       /\ apiRequests'[1].token /\ apiRequests'[1].repository = "owner/repo"
  /\ (pc = "refetch" /\ declaredPct.found) =>
       (apiRequests' = apiRequests /\ declaredPct' = declaredPct)
  /\ (pc = "refetch" /\ stderr' # stderr) => declaredPct' = NotFound
  /\ pc = "refetch" => (~exited' /\ pc' = "validate")

\* C7: the pull-request body is requested at most once in a run, and only
\* when the local body gave no value and a token and owner/repo are at hand;
\* a local value skips the request; a request that fails leaves the
\* declaration not found and the run goes on to the validation.
C7_RefetchAtMostOnce == [][C7_Step]_vars

\* a run whose one request failed and which stands before the validation
C7_Witness ==
  /\ pc = "validate"
  /\ Len(apiRequests) = 1
  /\ ~declaredPct.found
  /\ Last(stderr) = "Warning: refetch PR body failed"

\* a query the range rests on has failed
ResolutionFailed ==
  \E k \in 1..Len(failedGit) :
    failedGit[k] \in {"rev-parse base", "rev-parse HEAD", "rev-list"}

\* the run stands after the resolution of the two revisions
PastResolution == pc \notin {"readEvent", "base", "head", "prefetch", "checkShas"}

\* C9: when the base or the head revision is not resolved, or the range
\* query has failed, the run has ended with a non-zero exit code, no commit
\* has been read or classified, the pattern step was not reached and nothing
\* was appended; a failed prefetch of the base is never what ends a run.
C9_UnresolvedRangeIsFatal ==
  /\ (ResolutionFailed \/ (PastResolution /\ (baseSha = "" \/ headSha = ""))) =>
       /\ exited /\ exitCode # 0
       /\ gitLog = <<>> /\ details = <<>> /\ patterns = <<>>
       /\ sink = <<>>
  /\ (exited /\ exitCode # 0) =>
       Last(stderr) # "Warning: could not ensure base SHA locally"

\* a run whose prefetch of the base failed and which ended well all the same
C9_Witness ==
  /\ \E k \in 1..Len(failedGit) : failedGit[k] = "fetch base"
  /\ exited /\ exitCode = 0
  /\ Len(sink) = 2

-----------------------------------------------------------------------------
(* Properties of the functions, checked under SpecFn *)

Abs(x) == IF x < 0 THEN -x ELSE x

\* C3: for AI volume a and human volume h, the computed percentage is 0
\* when a + h = 0, and otherwise an integer of 0..100 nearest to
\* 100*a/(a+h): it is at most one half away from it.
C3_ComputedPctIsNearest ==
  (fn.name = "computedPct" /\ fn.done) =>
    LET a == fn.arg.ai
        t == fn.arg.ai + fn.arg.human
    IN  IF t = 0 THEN fn.ret = 0
        ELSE /\ fn.ret \in 0..100
             /\ 2 * Abs(fn.ret * t - 100 * a) <= t

\* 23 of 40 is 57.5 per cent and the script reports 57
C3_Witness ==
  /\ fn.name = "computedPct" /\ fn.done
  /\ fn.arg.ai = 23 /\ fn.arg.human = 17
  /\ fn.ret = 57

\* a line that, its surrounding white space apart, is AI: true, in any case
\* and with any white space on either side of the colon
IsMarkerLine(line) ==
  LET t == Trim(line) IN
  /\ MatchesAtCI(t, 1, <<"a","i">>)
  /\ \E c \in 3..Len(t) :
       /\ AllSpace(t, 3, c)
       /\ t[c] = ":"
       /\ \E q \in (c + 1)..Len(t) :
            /\ AllSpace(t, c + 1, q)
            /\ MatchesAtCI(t, q, <<"t","r","u","e">>)
            /\ q + 3 = Len(t)

HasMarkerLine(lines) == \E k \in 1..Len(lines) : IsMarkerLine(lines[k])

\* a pattern of the list matches one of the four identity fields
AnyIdentityMatches(pats, meta) ==
  \E k \in 1..Len(pats) :
    \E field \in {meta.authorName, meta.authorEmail,
                  meta.committerName, meta.committerEmail} :
      RegExpTest(pats[k], field)

\* C5: a commit is labelled AI when its message has the marker line,
\* whatever its identities; else when a pattern matches one of its four
\* identity fields; else it is labelled Human.
C5_FirstMatchWins ==
  (fn.name = "isAICommit" /\ fn.done) =>
    fn.ret = (HasMarkerLine(fn.arg.lines)
                \/ AnyIdentityMatches(fn.arg.patterns, fn.arg.meta))

\* C6: on a commit whose identities match no pattern, the commit is
\* labelled AI exactly when its message has a standalone marker line; AI: true
\* inside a longer line does not count, ai : TRUE on its own line does.
C6_MarkerIsStandaloneLine ==
  (fn.name = "isAICommit" /\ fn.done
     /\ ~AnyIdentityMatches(fn.arg.patterns, fn.arg.meta)) =>
    fn.ret = HasMarkerLine(fn.arg.lines)

\* the expressions of the well-formed lines of a pattern file, in order
RECURSIVE CompiledWellFormed(_)
CompiledWellFormed(lines) ==
  IF lines = <<>> THEN <<>>
  ELSE LET l == Trim(lines[1]) IN
       (IF l = <<>> \/ RegExpThrows(l) THEN <<>> ELSE <<RegExp(l)>>)
         \o CompiledWellFormed(Tail(lines))

\* C8: with a pattern file present, the list is the default one followed by
\* every well-formed line of the file; a malformed line is passed over and
\* never ends the run.
C8_MalformedLinesAreSkipped ==
  (fn.name = "loadPatterns" /\ fn.done /\ fn.arg.exists) =>
    /\ ~fn.ret.threw
    /\ fn.ret.pats = DefaultPatterns \o CompiledWellFormed(fn.arg.lines)

\* the added plus the deleted lines of the text files
RECURSIVE TextVolume(_)
TextVolume(files) ==
  IF files = <<>> THEN 0
  ELSE (IF files[1].binary THEN 0 ELSE files[1].added + files[1].deleted)
         + TextVolume(Tail(files))

\* the added lines of the text files
RECURSIVE AddedVolume(_)
AddedVolume(files) ==
  IF files = <<>> THEN 0
  ELSE (IF files[1].binary THEN 0 ELSE files[1].added) + AddedVolume(Tail(files))

\* C10 as stated: the volume of every commit is the sum, over its text
\* files, of the added and the deleted lines.
C10_VolumeIsAddedPlusDeleted ==
  (fn.name = "volume" /\ fn.done) => fn.ret = TextVolume(fn.arg.files)

\* C10 amended: in the volume revision the volume of a commit is the sum,
\* over its text files, of added plus deleted lines; in the other two it is
\* the sum of the added lines alone; a binary file adds nothing, the result
\* is not negative, and it is 0 for a commit that touches no file.
C10_VolumePerRevision ==
  (fn.name = "volume" /\ fn.done) =>
    /\ fn.ret = IF rev = "volume" THEN TextVolume(fn.arg.files)
                ELSE AddedVolume(fn.arg.files)
    /\ fn.ret >= 0
    /\ fn.arg.files = <<>> => fn.ret = 0

\* a text file of 3 added and 2 deleted lines and a binary one: 5
C10_Witness ==
  /\ rev = "volume"
  /\ fn.name = "volume" /\ fn.done
  /\ fn.arg.files = <<FileStat(FALSE, 3, 2, PathText), FileStat(TRUE, 0, 0, PathImage)>>
  /\ fn.ret = 5

\* white space and bold markers, which may stand around the colon of a field
IsSpaceOrStar(c) == IsSpace(c) \/ c = "*"

\* a Declared AI Percent field with its label at L, the label in bold or
\* not: where its number stands, 0 when there is no such field at L
FieldAt(s, L) ==
  IF ~LabelAt(s, L) THEN 0
  ELSE LET c == RunEnd(s, L + 19, IsSpaceOrStar)
           q == RunEnd(s, c + 1, IsSpaceOrStar)
       IN  IF c <= Len(s) /\ s[c] = ":" /\ DigitAt(s, q) THEN q ELSE 0

\* the integer written at q
IntegerAt(s, q) == ParseInt(SubSeq(s, q, RunEnd(s, q, IsDigit) - 1))

\* C11: the parser returns the integer of the Declared AI Percent field
\* whether or not its label is in bold; it takes the Estimated % field only
\* when the body has no such field, and finds nothing when it has neither.
\* So **Declared-AI-Percent**: 42 gives 42 and passes the validation, while
\* Declared-AI-Percent:140, and a body with neither field, fail it.
C11_DeclaredFieldParsed ==
  (fn.name = "declaration" /\ fn.done) =>
    LET b == Trim(fn.arg.body)
        f == FirstDigits(b, FieldAt)
        e == FirstDigits(b, EstimatedDigitsAt)
        expected == IF f > 0 THEN Found(IntegerAt(b, f))
                    ELSE IF e > 0 THEN Found(ParseInt(CaptureAt(b, e)))
                    ELSE NotFound
    IN  /\ fn.ret.parsed = expected
        /\ fn.ret.fatal = (~expected.found \/ expected.n > 100)
        /\ fn.arg.body = BodyBold42 =>
             fn.ret.parsed = Found(42) /\ ~fn.ret.fatal
        /\ fn.arg.body = BodyPlain140 => fn.ret.fatal

-----------------------------------------------------------------------------
(* The aggregation pass, checked under Spec *)

\* the sum of the volumes of the rows that carry the label
RECURSIVE RowsVolume(_, _)
RowsVolume(rows, label) ==
  IF rows = <<>> THEN 0
  ELSE (IF rows[1].label = label THEN rows[1].volume ELSE 0)
         + RowsVolume(Tail(rows), label)

\* the loop is over and the run went on
PassDone ==
  pc \in {"parse", "refetch", "validate", "final", "envFile", "appendMd",
          "appendSummary", "log"}

\* C12: after every commit processed, and after the pass, the detail list
\* has one row for each commit processed so far, in range order, carrying
\* the volume and the label of that commit (compared with what git gave
\* while the loop runs and right after it); the AI bucket is the sum of the
\* volumes of the AI rows and the human bucket that of the Human rows; after
\* the pass every commit of the range has its row; with no commit the list
\* is empty and both buckets are 0; rows of 10 Human, 5 AI, 5 AI give 10 and
\* 10 and a computed percentage of 50.
C12_BucketsMatchRows ==
  /\ Len(details) <= Len(commits)
  /\ Len(gitLog) = Len(details)
  /\ \A k \in 1..Len(details) :
       /\ details[k].sha = commits[k]
       /\ details[k].volume >= 0
       /\ details[k].label \in {"AI", "Human"}
  /\ pc \in {"loop", "parse"} =>
       \A k \in 1..Len(details) :
         /\ details[k].volume = CommitVolume(rev, gitLog[k].numstat)
         /\ details[k].label = "AI" <=>
              isAICommit(rev, patterns, gitLog[k].meta, sh(gitLog[k].message))
  /\ aiVol = RowsVolume(details, "AI")
  /\ humanVol = RowsVolume(details, "Human")
  /\ PassDone => Len(details) = Len(commits)
  /\ commits = <<>> => details = <<>> /\ aiVol = 0 /\ humanVol = 0
  /\ (PassDone /\ pc # "parse"
        /\ [k \in 1..Len(details) |-> <<details[k].volume, details[k].label>>]
             = << <<10, "Human">>, <<5, "AI">>, <<5, "AI">> >>) =>
       aiVol = 10 /\ humanVol = 10 /\ computedPct = 50

\* the run of three commits of 10 Human, 5 AI, 5 AI with 70 declared
C12_Witness ==
  /\ [k \in 1..Len(details) |-> <<details[k].volume, details[k].label>>]
       = << <<10, "Human">>, <<5, "AI">>, <<5, "AI">> >>
  /\ aiVol = 10 /\ humanVol = 10
  /\ computedPct = 50
  /\ declaredPct = Found(70)
  /\ finalPct = 70
  /\ sink # <<>>

====
